---- MODULE Spec2Model ----
(***************************************************************************)
(* Model of the stock-analysis tools: the two fetch-and-merge scripts      *)
(* (fetch_icolcap_to_sqlite.py, add_ticker_to_db.py) and the summary       *)
(* reporter (check_ticker_in_db.py) running one after another against one  *)
(* SQLite store.  Tables are bags of rows; the connection keeps a working  *)
(* copy of the tables while a transaction is open.                         *)
(***************************************************************************)
EXTENDS Bags, FiniteSets, Integers, Sequences, TLC

VARIABLES
    dbFile,      \* the store file exists on disk
    dbTables,    \* committed: ticker_info and ticker_prices exist
    dbInfo,      \* committed rows of ticker_info (a bag)
    dbPrices,    \* committed rows of ticker_prices (a bag)
    conn,        \* "none" | "open" | "closed": the sqlite3.Connection of the run
    inTx,        \* conn.in_transaction
    txInfo,      \* ticker_info as the connection sees it
    txPrices,    \* ticker_prices as the connection sees it
    script,      \* the entry point that is running (or ran last)
    pc,          \* position in main()
    argTicker,   \* args.ticker
    info,        \* main's local `info`
    count,       \* main's local `count` / `inserted`
    row,         \* the reporter's local `row`
    err,         \* the exception that is propagating, or "none"
    out,         \* what the run printed
    clock,       \* CURRENT_TIMESTAMP
    calls,       \* provider calls made by the run, in order
    hist,        \* the frame of the run's completed upsert_price_history call
    wrote,       \* the run has changed the committed rows
    prev         \* the last fetch run that committed: its ticker and frame

vars == <<dbFile, dbTables, dbInfo, dbPrices, conn, inTx, txInfo, txPrices,
          script, pc, argTicker, info, count, row, err, out, clock, calls,
          hist, wrote, prev>>

----------------------------------------------------------------------------
(* Bounds *)

MaxClock == 1      \* CURRENT_TIMESTAMP values 0..MaxClock

----------------------------------------------------------------------------
(* Values *)

Null == "NULL"
NoRow == [kind |-> "None"]

Tickers == {"ICOLCAP.CL", "XYZ"}

\* fetch_icolcap_to_sqlite.py and add_ticker_to_db.py are the same code from
\* create_tables to main (the defaults of --ticker and the messages differ),
\* so a run of either is a "fetch" run.
Fetch == "fetch_icolcap_to_sqlite | add_ticker_to_db"
Check == "check_ticker_in_db"

\* yf.Ticker(t).info: an empty mapping, a full one, a partial one with a key
\* the schema does not model.
InfoFull(t) ==
    [symbol |-> t, shortName |-> "short-1", longName |-> "long-1",
     quoteType |-> "ETF", currency |-> "COP", exchange |-> "BVC",
     marketCap |-> "1000000", sector |-> "Financial", industry |-> "Funds",
     country |-> "Colombia", website |-> "https://example.com"]

InfoPartial(t) ==
    [symbol |-> t, shortName |-> "short-2", currency |-> "USD", beta |-> "0.9"]

EmptyInfo == [k \in {} |-> Null]

InfoResponses(t) == {EmptyInfo, InfoFull(t), InfoPartial(t)}

\* Index values of the provider's frame: a local wall-clock time with its zone.
Timestamps ==
    { [y |-> 2023, m |-> 12, d |-> 29, hh |-> 0,  tz |-> "-05:00"],
      [y |-> 2024, m |-> 1,  d |-> 2,  hh |-> 0,  tz |-> "-05:00"],
      [y |-> 2024, m |-> 1,  d |-> 2,  hh |-> 16, tz |-> "+00:00"],
      [y |-> 2024, m |-> 1,  d |-> 3,  hh |-> 0,  tz |-> "-05:00"] }

Stamp(y, m, d, hh) == CHOOSE ts \in Timestamps : ts.y = y /\ ts.m = m /\ ts.d = d /\ ts.hh = hh

\* Column values of a bar.  ColumnsC is a frame without an "Adj Close" column.
ColumnsA ==
    ("Open" :> "10.0") @@ ("High" :> "10.9") @@ ("Low" :> "9.9") @@
    ("Close" :> "10.5") @@ ("Adj Close" :> "10.4") @@ ("Volume" :> "1000") @@
    ("Dividends" :> "0.0") @@ ("Stock Splits" :> "0.0")

ColumnsB ==
    ("Open" :> "11.0") @@ ("High" :> "11.9") @@ ("Low" :> "9.1") @@
    ("Close" :> "9.8") @@ ("Adj Close" :> "9.7") @@ ("Volume" :> "2000") @@
    ("Dividends" :> "0.3") @@ ("Stock Splits" :> "2.0")

ColumnsC ==
    ("Open" :> "10.0") @@ ("High" :> "10.9") @@ ("Low" :> "9.9") @@
    ("Close" :> "11.0") @@ ("Volume" :> "1000") @@
    ("Dividends" :> "0.0") @@ ("Stock Splits" :> "0.0")

\* One row of history.reset_index(): the index value and the columns.
Bar(ts, cols) == [Date |-> ts, cols |-> cols]

\* yf.Ticker(t).history(...): a frame of zero or more bars, in provider order;
\* every row of a frame has the frame's columns.
Histories ==
    { << >>,
      \* two trading days
      << Bar(Stamp(2023, 12, 29, 0), ColumnsA), Bar(Stamp(2024, 1, 2, 0), ColumnsA) >>,
      \* a later window: one day again, amended, and a new day
      << Bar(Stamp(2024, 1, 2, 0), ColumnsB), Bar(Stamp(2024, 1, 3, 0), ColumnsA) >>,
      \* two index values on one calendar date, in either order
      << Bar(Stamp(2024, 1, 2, 0), ColumnsA), Bar(Stamp(2024, 1, 2, 16), ColumnsB) >>,
      << Bar(Stamp(2024, 1, 2, 16), ColumnsB), Bar(Stamp(2024, 1, 2, 0), ColumnsA) >>,
      \* a frame without the "Adj Close" column
      << Bar(Stamp(2024, 1, 3, 0), ColumnsC) >> }

----------------------------------------------------------------------------
(* Date strings *)

Digit(n) == 48 + n
Dash == 45

\* history[date_column].dt.date.astype(str): "YYYY-MM-DD" of the local date;
\* the time of day and the zone are dropped.
DateStr(ts) ==
    << Digit(ts.y \div 1000), Digit((ts.y \div 100) % 10),
       Digit((ts.y \div 10) % 10), Digit(ts.y % 10), Dash,
       Digit(ts.m \div 10), Digit(ts.m % 10), Dash,
       Digit(ts.d \div 10), Digit(ts.d % 10) >>

\* SQLite's BINARY collation on TEXT (bytewise, shorter prefix first).
RECURSIVE StrLess(_, _)
StrLess(a, b) ==
    IF b = << >> THEN FALSE
    ELSE IF a = << >> THEN TRUE
    ELSE IF Head(a) # Head(b) THEN Head(a) < Head(b)
    ELSE StrLess(Tail(a), Tail(b))

StrLeq(a, b) == a = b \/ StrLess(a, b)

----------------------------------------------------------------------------
(* Tables *)

EmptyTable == EmptyBag

Rows(tbl) == BagToSet(tbl)

\* dict.get / Series.get: None for a missing key.
Get(mapping, key) == IF key \in DOMAIN mapping THEN mapping[key] ELSE Null

\* json.dumps(info): the text holds every key with its value.
JsonDumps(mapping) == {<<k, mapping[k]>> : k \in DOMAIN mapping}

\* The parameter tuple of upsert_ticker_info, as the row it inserts.
InfoRow(ticker, mapping, now) ==
    [ticker |-> ticker,
     short_name |-> Get(mapping, "shortName"),
     long_name |-> Get(mapping, "longName"),
     quote_type |-> Get(mapping, "quoteType"),
     currency |-> Get(mapping, "currency"),
     exchange |-> Get(mapping, "exchange"),
     market_cap |-> Get(mapping, "marketCap"),
     sector |-> Get(mapping, "sector"),
     industry |-> Get(mapping, "industry"),
     country |-> Get(mapping, "country"),
     website |-> Get(mapping, "website"),
     raw_info_json |-> JsonDumps(mapping),
     updated_at |-> now]

\* Columns of ticker_info that hold text or a number taken from the mapping.
InfoValueColumns ==
    {"short_name", "long_name", "quote_type", "currency", "exchange", "market_cap",
     "sector", "industry", "country", "website"}

\* A field-level merge: a column the new mapping lacks keeps its stored value
\* (DO UPDATE SET c = COALESCE(excluded.c, c)).
CoalesceTickerInfo(tbl, ticker, mapping, now) ==
    LET old == {r \in Rows(tbl) : r.ticker = ticker}
        kept == [r \in Rows(tbl) \ old |-> tbl[r]]
        new == InfoRow(ticker, mapping, now)
        merged(o) == [c \in DOMAIN new |->
                        IF c \in InfoValueColumns /\ new[c] = Null THEN o[c] ELSE new[c]]
    IN  IF old = {} THEN kept (+) SetToBag({new})
        ELSE kept (+) SetToBag({merged(o) : o \in old})

\* An UPDATE ... WHERE ticker = ? in place of the upsert: a new ticker gets no row.
UpdateTickerInfo(tbl, ticker, mapping, now) ==
    LET old == {r \in Rows(tbl) : r.ticker = ticker}
        kept == [r \in Rows(tbl) \ old |-> tbl[r]]
    IN  IF old = {} THEN tbl
        ELSE kept (+) SetToBag({InfoRow(ticker, mapping, now)})

\* INSERT INTO ticker_info ... ON CONFLICT(ticker) DO UPDATE SET <every other column>.
UpsertTickerInfo(tbl, ticker, mapping, now) ==
    LET old == {r \in Rows(tbl) : r.ticker = ticker}
        kept == [r \in Rows(tbl) \ old |-> tbl[r]]
    IN  kept (+) SetToBag({InfoRow(ticker, mapping, now)})

\* One tuple of `rows` in upsert_price_history.
PriceRow(ticker, bar) ==
    [ticker |-> ticker,
     date |-> DateStr(bar.Date),
     open |-> Get(bar.cols, "Open"),
     high |-> Get(bar.cols, "High"),
     low |-> Get(bar.cols, "Low"),
     close |-> Get(bar.cols, "Close"),
     adj_close |-> Get(bar.cols, "Adj Close"),
     volume |-> Get(bar.cols, "Volume"),
     dividends |-> Get(bar.cols, "Dividends"),
     stock_splits |-> Get(bar.cols, "Stock Splits")]

\* The loop over history.iterrows().
BuildRows(ticker, frame) == [i \in 1..Len(frame) |-> PriceRow(ticker, frame[i])]

\* A plain INSERT into a table that does not enforce its key.
InsertPriceRow(tbl, new) == tbl (+) SetToBag({new})

\* ON CONFLICT(ticker, date) DO NOTHING: the stored row wins.
KeepFirstPriceRow(tbl, new) ==
    IF \E r \in Rows(tbl) : r.ticker = new.ticker /\ r.date = new.date
    THEN tbl
    ELSE tbl (+) SetToBag({new})

\* One INSERT INTO ticker_prices ... ON CONFLICT(ticker, date) DO UPDATE SET
\* <every other column>.
UpsertPriceRow(tbl, new) ==
    LET old == {r \in Rows(tbl) : r.ticker = new.ticker /\ r.date = new.date}
        kept == [r \in Rows(tbl) \ old |-> tbl[r]]
    IN  kept (+) SetToBag({new})

\* conn.executemany: the statement once per tuple, in order; stops at the
\* first n tuples when a later one cannot be bound.
RECURSIVE ExecuteMany(_, _, _)
ExecuteMany(tbl, rows, n) ==
    IF n = 0 THEN tbl
    ELSE UpsertPriceRow(ExecuteMany(tbl, rows, n - 1), rows[n])

----------------------------------------------------------------------------
(* The reporter's query *)

\* ORDER BY date (ascending) LIMIT 1: the oldest row's close.
LatestCloseOldest(tbl, ticker) ==
    LET mine == {r \in Rows(tbl) : r.ticker = ticker}
    IN  (CHOOSE r \in mine : \A q \in mine : StrLeq(r.date, q.date)).close

\* SELECT close FROM ticker_prices p2 WHERE p2.ticker = p1.ticker
\* ORDER BY date DESC LIMIT 1
LatestClose(tbl, ticker) ==
    LET mine == {r \in Rows(tbl) : r.ticker = ticker}
    IN  (CHOOSE r \in mine : \A q \in mine : StrLeq(q.date, r.date)).close

\* SELECT p1.ticker, COUNT(*), MIN(date), MAX(date), (...) FROM ticker_prices p1
\* WHERE ticker = ? GROUP BY ticker, then fetchone().
SummaryQuery(tbl, ticker) ==
    LET mine == {r \in Rows(tbl) : r.ticker = ticker}
        dates == {r.date : r \in mine}
    IN  IF mine = {} THEN NoRow
        ELSE [kind |-> "Row",
              ticker |-> ticker,
              row_count |-> BagCardinality([r \in mine |-> tbl[r]]),
              first_date |-> CHOOSE d \in dates : \A e \in dates : StrLeq(d, e),
              last_date |-> CHOOSE d \in dates : \A e \in dates : StrLeq(e, d),
              latest_close |-> LatestClose(tbl, ticker)]

----------------------------------------------------------------------------
(* Connection *)

\* conn.commit(): the connection's view becomes the committed one.
Commit ==
    /\ dbInfo' = txInfo
    /\ dbPrices' = txPrices
    /\ inTx' = FALSE
    /\ wrote' = (wrote \/ txInfo # dbInfo \/ txPrices # dbPrices)
    /\ UNCHANGED <<txInfo, txPrices>>

\* conn.rollback(): the connection's view falls back to the committed one.
Rollback ==
    /\ txInfo' = dbInfo
    /\ txPrices' = dbPrices
    /\ inTx' = FALSE
    /\ UNCHANGED <<dbInfo, dbPrices, wrote>>

\* A finally: conn.commit() in place of the context manager.
CommitAlways == Commit

\* sqlite3.Connection.__exit__: commit when the body ended normally, roll back
\* when an exception is leaving it.  It does not close the connection.
ConnectionExit == IF err = "none" THEN Commit ELSE Rollback

\* What becomes of the connection when the process ends: no script calls
\* conn.close(), so the handle is closed only if the runtime finalises the
\* object (reference counting does on a normal return; the language does not
\* promise it for objects alive at interpreter exit, nor do other runtimes).
Finalised == {"open", "closed"}

----------------------------------------------------------------------------
(* Initial state: no store file, no run yet *)

NoRun == [ticker |-> "", hist |-> << >>]

Init ==
    /\ dbFile = FALSE
    /\ dbTables = FALSE
    /\ dbInfo = EmptyTable
    /\ dbPrices = EmptyTable
    /\ conn = "none"
    /\ inTx = FALSE
    /\ txInfo = EmptyTable
    /\ txPrices = EmptyTable
    /\ script = "none"
    /\ pc = "exited"
    /\ argTicker = ""
    /\ info = EmptyInfo
    /\ count = 0
    /\ row = NoRow
    /\ err = "none"
    /\ out = [kind |-> "nothing"]
    /\ clock = 0
    /\ calls = << >>
    /\ hist = << >>
    /\ wrote = FALSE
    /\ prev = NoRun

\* A new process: locals are fresh, the bookkeeping of the run starts over.
NewRun(s, t) ==
    /\ script' = s
    /\ argTicker' = t
    /\ UNCHANGED <<info, count, row, err, out, calls, hist, wrote, prev>>

----------------------------------------------------------------------------
(* fetch_icolcap_to_sqlite.main / add_ticker_to_db.main *)

\* Argument parsing, mkdir, and `with sqlite3.connect(db_path) as conn`.
FetchStart ==
    /\ pc = "exited"
    /\ \E t \in Tickers : NewRun(Fetch, t)
    /\ dbFile' = TRUE
    /\ conn' = "open"
    /\ inTx' = FALSE
    /\ txInfo' = dbInfo
    /\ txPrices' = dbPrices
    /\ pc' = "create_tables"
    /\ UNCHANGED <<dbTables, dbInfo, dbPrices, clock>>

\* The DDL as part of the run's transaction: the tables are not durable until
\* the run commits.
CreateTablesInTransaction ==
    /\ pc = "create_tables"
    /\ pc' = "fetch_info"
    /\ UNCHANGED <<dbFile, dbTables, dbInfo, dbPrices, conn, inTx, txInfo, txPrices, script,
                   argTicker, info, count, row, err, out, clock, calls, hist,
                   wrote, prev>>

\* create_tables(conn): two CREATE TABLE IF NOT EXISTS; DDL opens no
\* transaction, so it is durable at once.
CreateTables ==
    /\ pc = "create_tables"
    /\ dbTables' = TRUE
    /\ pc' = "fetch_info"
    /\ UNCHANGED <<dbFile, dbInfo, dbPrices, conn, inTx, txInfo, txPrices, script,
                   argTicker, info, count, row, err, out, clock, calls, hist,
                   wrote, prev>>

\* fetch_info without its `if not info: raise`.
FetchInfoUnchecked ==
    /\ pc = "fetch_info"
    /\ calls' = Append(calls, "info")
    /\ \E resp \in InfoResponses(argTicker) : info' = resp
    /\ pc' = "upsert_info"
    /\ UNCHANGED <<dbFile, dbTables, dbInfo, dbPrices, conn, inTx, txInfo, txPrices,
                   script, argTicker, count, row, err, out, clock, hist, wrote, prev>>

\* fetch_info / fetch_ticker_info: raises on an empty mapping.
FetchInfo ==
    /\ pc = "fetch_info"
    /\ calls' = Append(calls, "info")
    /\ \E resp \in InfoResponses(argTicker) :
         IF DOMAIN resp = {}
         THEN /\ err' = "RuntimeError: no metadata"
              /\ pc' = "with_exit"
              /\ UNCHANGED info
         ELSE /\ info' = resp
              /\ pc' = "upsert_info"
              /\ UNCHANGED err
    /\ UNCHANGED <<dbFile, dbTables, dbInfo, dbPrices, conn, inTx, txInfo, txPrices,
                   script, argTicker, count, row, out, clock, hist, wrote, prev>>

\* upsert_ticker_info(conn, args.ticker, info); the INSERT opens the transaction.
UpsertInfoStep ==
    /\ pc = "upsert_info"
    /\ inTx' = TRUE
    /\ txInfo' = UpsertTickerInfo(txInfo, argTicker, info, clock)
    /\ pc' = "upsert_prices"
    /\ UNCHANGED <<dbFile, dbTables, dbInfo, dbPrices, conn, txPrices, script,
                   argTicker, info, count, row, err, out, clock, calls, hist,
                   wrote, prev>>

\* A merge that replaces the ticker's history by the frame: an empty frame
\* clears it.
ReplacePriceTable(tbl, ticker, frame) ==
    LET others == {r \in Rows(tbl) : r.ticker # ticker}
    IN  ExecuteMany([r \in others |-> tbl[r]], BuildRows(ticker, frame), Len(frame))

\* upsert_price_history: the rows written and the count returned for a frame.
PriceTableAfter(tbl, ticker, frame) ==
    IF frame = << >> THEN tbl
    ELSE ExecuteMany(tbl, BuildRows(ticker, frame), Len(frame))

PriceCount(frame) == IF frame = << >> THEN 0 ELSE Len(BuildRows("", frame))

\* count = upsert_price_history(conn, args.ticker, period)
UpsertPricesStep ==
    /\ pc = "upsert_prices"
    /\ calls' = Append(calls, "history")
    /\ \E frame \in Histories :
         /\ hist' = frame
         /\ txPrices' = PriceTableAfter(txPrices, argTicker, frame)
         /\ count' = PriceCount(frame)
    /\ pc' = "commit"
    /\ UNCHANGED <<dbFile, dbTables, dbInfo, dbPrices, conn, inTx, txInfo, script,
                   argTicker, info, row, err, out, clock, wrote, prev>>

\* The provider's history call raises (network, parsing): nothing is written.
HistoryRaises ==
    /\ pc = "upsert_prices"
    /\ calls' = Append(calls, "history")
    /\ err' = "provider error"
    /\ pc' = "with_exit"
    /\ UNCHANGED <<dbFile, dbTables, dbInfo, dbPrices, conn, inTx, txInfo, txPrices,
                   script, argTicker, info, count, row, out, clock, hist, wrote, prev>>

\* executemany raises on a tuple it cannot bind: the tuples before it are
\* already written inside the transaction.
ExecuteManyRaises ==
    /\ pc = "upsert_prices"
    /\ calls' = Append(calls, "history")
    /\ \E frame \in Histories \ {<< >>} :
         \E n \in 0..(Len(frame) - 1) :
            txPrices' = ExecuteMany(txPrices, BuildRows(argTicker, frame), n)
    /\ err' = "ProgrammingError"
    /\ pc' = "with_exit"
    /\ UNCHANGED <<dbFile, dbTables, dbInfo, dbPrices, conn, inTx, txInfo, script,
                   argTicker, info, count, row, out, clock, hist, wrote, prev>>

\* conn.commit() at the end of the with body.
CommitStep ==
    /\ pc = "commit"
    /\ Commit
    /\ prev' = [ticker |-> argTicker, hist |-> hist]
    /\ pc' = "with_exit"
    /\ UNCHANGED <<dbFile, dbTables, conn, script, argTicker, info, count, row, err,
                   out, clock, calls, hist>>

\* Leaving the with block, in all three scripts.
WithExit ==
    /\ pc = "with_exit"
    /\ ConnectionExit
    /\ pc' = IF err = "none" THEN "print" ELSE "return"
    /\ UNCHANGED <<dbFile, dbTables, conn, script, argTicker, info, count, row, err,
                   out, clock, calls, hist, prev>>

\* print(f"... {count} price rows ...")
FetchPrint ==
    /\ pc = "print"
    /\ script = Fetch
    /\ out' = [kind |-> "saved", ticker |-> argTicker, count |-> count]
    /\ pc' = "return"
    /\ UNCHANGED <<dbFile, dbTables, dbInfo, dbPrices, conn, inTx, txInfo, txPrices,
                   script, argTicker, info, count, row, err, clock, calls, hist,
                   wrote, prev>>

\* main returns or the exception reaches the top: the process ends and its
\* locals are gone.
ProcessExit ==
    /\ pc = "return"
    /\ conn' \in (IF conn = "open" THEN Finalised ELSE {conn})
    /\ pc' = "exited"
    /\ info' = EmptyInfo
    /\ count' = 0
    /\ row' = NoRow
    /\ err' = "none"
    /\ out' = [kind |-> "nothing"]
    /\ calls' = << >>
    /\ hist' = << >>
    /\ script' = "none"
    /\ argTicker' = ""
    /\ wrote' = FALSE
    /\ UNCHANGED <<dbFile, dbTables, dbInfo, dbPrices, inTx, txInfo, txPrices,
                   clock, prev>>

----------------------------------------------------------------------------
(* check_ticker_in_db.main *)

\* The store file is missing: FileNotFoundError before any connection.
ReportNoFile ==
    /\ pc = "exited"
    /\ ~dbFile
    /\ \E t \in Tickers :
         /\ script' = Check
         /\ argTicker' = t
    /\ err' = "FileNotFoundError"
    /\ conn' = "none"
    /\ pc' = "return"
    /\ UNCHANGED <<dbFile, dbTables, dbInfo, dbPrices, inTx, txInfo, txPrices, info,
                   count, row, out, clock, calls, hist, wrote, prev>>

\* `with sqlite3.connect(db_path) as conn`
ReportStart ==
    /\ pc = "exited"
    /\ dbFile
    /\ \E t \in Tickers : NewRun(Check, t)
    /\ conn' = "open"
    /\ inTx' = FALSE
    /\ txInfo' = dbInfo
    /\ txPrices' = dbPrices
    /\ pc' = "query"
    /\ UNCHANGED <<dbFile, dbTables, dbInfo, dbPrices, clock>>

\* row = conn.execute(<summary query>, (args.ticker,)).fetchone()
ReportQuery ==
    /\ pc = "query"
    /\ IF dbTables
       THEN row' = SummaryQuery(txPrices, argTicker) /\ UNCHANGED err
       ELSE err' = "OperationalError: no such table" /\ UNCHANGED row
    /\ pc' = "with_exit"
    /\ UNCHANGED <<dbFile, dbTables, dbInfo, dbPrices, conn, inTx, txInfo, txPrices,
                   script, argTicker, info, count, out, clock, calls, hist, wrote, prev>>

\* The "No price rows found" branch or the five-line summary.
ReportPrint ==
    /\ pc = "print"
    /\ script = Check
    /\ out' = IF row = NoRow \/ row.row_count = 0
              THEN [kind |-> "no price rows found", ticker |-> argTicker]
              ELSE [kind |-> "summary", ticker |-> row.ticker, rows |-> row.row_count,
                    first_date |-> row.first_date, last_date |-> row.last_date,
                    latest_close |-> row.latest_close]
    /\ pc' = "return"
    /\ UNCHANGED <<dbFile, dbTables, dbInfo, dbPrices, conn, inTx, txInfo, txPrices,
                   script, argTicker, info, count, row, err, clock, calls, hist,
                   wrote, prev>>

----------------------------------------------------------------------------
(* Time *)

\* CURRENT_TIMESTAMP moves on; a run reads it once, so time passing between
\* runs gives every sequence of values the runs can read.
Tick ==
    /\ pc = "exited"
    /\ clock < MaxClock
    /\ clock' = clock + 1
    /\ UNCHANGED <<dbFile, dbTables, dbInfo, dbPrices, conn, inTx, txInfo, txPrices,
                   script, pc, argTicker, info, count, row, err, out, calls, hist,
                   wrote, prev>>

Next ==
    \/ FetchStart
    \/ CreateTables
    \/ FetchInfo
    \/ UpsertInfoStep
    \/ UpsertPricesStep
    \/ HistoryRaises
    \/ ExecuteManyRaises
    \/ CommitStep
    \/ WithExit
    \/ FetchPrint
    \/ ProcessExit
    \/ ReportNoFile
    \/ ReportStart
    \/ ReportQuery
    \/ ReportPrint
    \/ Tick

Spec == Init /\ [][Next]_vars

----------------------------------------------------------------------------
(* Properties *)

RowsOf(tbl, ticker) == {r \in Rows(tbl) : r.ticker = ticker}

\* At most one row per (ticker, date).
UniqueKeys(tbl) ==
    \A r \in Rows(tbl) :
        /\ tbl[r] = 1
        /\ \A q \in Rows(tbl) : (q.ticker = r.ticker /\ q.date = r.date) => q = r

\* The calendar day a stored date string names, as yyyymmdd.
DateNum(str) ==
    LET n(i) == str[i] - Digit(0)
    IN  (n(1) * 1000 + n(2) * 100 + n(3) * 10 + n(4)) * 10000
        + (n(6) * 10 + n(7)) * 100 + (n(9) * 10 + n(10))

\* A fetch run is past its with block without an exception.
FetchDone == script = Fetch /\ err = "none" /\ pc \in {"print", "return"}

\* A fetch run has ended with an exception.
FetchFailed == script = Fetch /\ err # "none" /\ pc = "return"

\* C1: the price merge run twice for one ticker with the same provider frame
\* stores no duplicate (ticker, date) row: the table the second run commits has
\* as many rows as the first run left, and every table state, committed or
\* inside a transaction, has at most one row per (ticker, date).
C1_PriceMergeIdempotent ==
    /\ UniqueKeys(dbPrices)
    /\ UniqueKeys(txPrices)
    /\ (pc = "commit" /\ prev.ticker = argTicker /\ prev.hist = hist)
          => BagCardinality(txPrices) = BagCardinality(dbPrices)

C1_Witness ==
    /\ pc = "commit"
    /\ prev.ticker = argTicker
    /\ prev.hist = hist
    /\ Len(hist) = 2
    /\ Cardinality(RowsOf(txPrices, argTicker)) = 3

\* The column of ticker_info each key of the provider's mapping goes to.
InfoColumnKey ==
    {<<"short_name", "shortName">>, <<"long_name", "longName">>,
     <<"quote_type", "quoteType">>, <<"currency", "currency">>,
     <<"exchange", "exchange">>, <<"market_cap", "marketCap">>,
     <<"sector", "sector">>, <<"industry", "industry">>,
     <<"country", "country">>, <<"website", "website">>}

\* The table holds one row for the ticker, and it is the mapping's: each
\* column the mapping's value, NULL for a key the mapping lacks, the raw
\* snapshot the whole mapping.
HoldsExactly(tbl, ticker, mapping) ==
    /\ Cardinality(RowsOf(tbl, ticker)) = 1
    /\ \A r \in RowsOf(tbl, ticker) :
          /\ tbl[r] = 1
          /\ \A ck \in InfoColumnKey :
                r[ck[1]] = (IF ck[2] \in DOMAIN mapping THEN mapping[ck[2]] ELSE Null)
          /\ r.raw_info_json = {<<k, mapping[k]>> : k \in DOMAIN mapping}

\* C2: the metadata merge is a full replace: after upsert_ticker_info the
\* connection sees exactly one ticker_info row for the ticker and every
\* non-key column of it comes from the fetched mapping (NULL for an absent
\* key), whatever was stored before; a run that commits leaves that row.
C2_InfoFullReplace ==
    /\ (script = Fetch /\ pc \in {"upsert_prices", "commit"})
          => HoldsExactly(txInfo, argTicker, info)
    /\ FetchDone => HoldsExactly(dbInfo, argTicker, info)

\* An earlier run committed a full row for the ticker; this run's mapping
\* lacks most keys and its upsert has just replaced the row in the transaction.
C2_Witness ==
    /\ script = Fetch
    /\ pc = "upsert_prices"
    /\ "longName" \notin DOMAIN info
    /\ \E r \in RowsOf(dbInfo, argTicker) : r.long_name # Null /\ r.updated_at < clock
    /\ \E r \in RowsOf(txInfo, argTicker) : r.long_name = Null /\ r.updated_at = clock

\* C3: an empty metadata mapping makes the run fail with the missing-metadata
\* error before anything is written: no transaction was opened, the committed
\* rows were never changed by the run, and the history call is not made.
C3_EmptyInfoFails ==
    (script = Fetch /\ calls # << >> /\ info = EmptyInfo)
        => /\ err = "RuntimeError: no metadata"
           /\ pc \in {"with_exit", "return"}
           /\ calls = <<"info">>
           /\ ~inTx
           /\ ~wrote
           /\ txInfo = dbInfo
           /\ txPrices = dbPrices

C3_Witness ==
    /\ FetchFailed
    /\ err = "RuntimeError: no metadata"
    /\ RowsOf(dbInfo, argTicker) # {}
    /\ RowsOf(dbPrices, argTicker) # {}

\* C4: an empty history frame makes upsert_price_history return 0 without an
\* error and leaves ticker_prices as it was.
C4_EmptyHistoryNoWrite ==
    (script = Fetch /\ pc = "commit" /\ hist = << >>)
        => /\ count = 0
           /\ err = "none"
           /\ txPrices = dbPrices

C4_Witness ==
    /\ script = Fetch
    /\ pc = "commit"
    /\ hist = << >>
    /\ RowsOf(dbPrices, argTicker) # {}

\* C5: for a ticker with at least one price row the reporter prints the number
\* of its rows, its earliest and latest calendar dates, and the close of its
\* latest row; other tickers' rows do not count.
C5_SummaryValues ==
    (script = Check /\ pc = "return" /\ RowsOf(dbPrices, argTicker) # {})
        => LET mine == RowsOf(dbPrices, argTicker)
           IN  /\ err = "none"
               /\ out.kind = "summary"
               /\ out.ticker = argTicker
               /\ out.rows = Cardinality(mine)
               /\ \E r \in mine :
                     /\ r.date = out.first_date
                     /\ \A q \in mine : DateNum(r.date) <= DateNum(q.date)
               /\ \E r \in mine :
                     /\ r.date = out.last_date
                     /\ r.close = out.latest_close
                     /\ \A q \in mine : DateNum(q.date) <= DateNum(r.date)

\* Three rows across a year's end, and another ticker with rows of its own.
C5_Witness ==
    /\ script = Check
    /\ pc = "return"
    /\ out.kind = "summary"
    /\ out.rows = 3
    /\ out.latest_close # (CHOOSE r \in RowsOf(dbPrices, argTicker) :
                              r.date = out.first_date).close
    /\ \E r \in Rows(dbPrices) : r.ticker # argTicker

\* C6: against an existing store with no price row for the ticker the reporter
\* prints "no price rows found" and raises nothing.
C6_NoRowsNoError ==
    (script = Check /\ pc = "return" /\ dbFile /\ RowsOf(dbPrices, argTicker) = {})
        => /\ err = "none"
           /\ out.kind = "no price rows found"

\* The store exists and no fetch run has ever committed.
C6_Witness ==
    /\ script = Check
    /\ pc = "return"
    /\ dbFile
    /\ prev = NoRun
    /\ out.kind = "no price rows found"

\* C7: when the process has ended, the run's connection has been closed and
\* no transaction is left open.
C7_ConnectionReleased ==
    pc = "exited" => (conn # "open" /\ ~inTx)

\* The columns of ticker_prices each column of the frame goes to.
PriceColumnKey ==
    {<<"open", "Open">>, <<"high", "High">>, <<"low", "Low">>, <<"close", "Close">>,
     <<"adj_close", "Adj Close">>, <<"volume", "Volume">>,
     <<"dividends", "Dividends">>, <<"stock_splits", "Stock Splits">>}

\* The index of the last bar of the frame on the calendar date of bar i.
LastOnDate(frame, i) ==
    CHOOSE j \in 1..Len(frame) :
        /\ DateStr(frame[j].Date) = DateStr(frame[i].Date)
        /\ \A k \in (j + 1)..Len(frame) : DateStr(frame[k].Date) # DateStr(frame[i].Date)

\* C8: after upsert_price_history has submitted a frame, each (ticker, date) of
\* the frame has one stored row, holding in every non-key column the value of
\* the last bar of the frame on that date; the count returned is the number of
\* bars submitted.
C8_LastWriteWins ==
    (script = Fetch /\ pc = "commit" /\ hist # << >>)
        => /\ count = Len(hist)
           /\ \A i \in 1..Len(hist) :
                 LET last == hist[LastOnDate(hist, i)].cols
                     stored == {r \in RowsOf(txPrices, argTicker) :
                                   r.date = DateStr(hist[i].Date)}
                 IN  /\ Cardinality(stored) = 1
                     /\ \A r \in stored :
                           /\ txPrices[r] = 1
                           /\ \A ck \in PriceColumnKey :
                                 r[ck[1]] = (IF ck[2] \in DOMAIN last
                                             THEN last[ck[2]] ELSE Null)

\* Two bars on one date, in a frame whose first bar is not the one kept, over a
\* committed row for that date: more bars counted than rows stored.
C8_Witness ==
    /\ script = Fetch
    /\ pc = "commit"
    /\ Len(hist) = 2
    /\ DateStr(hist[1].Date) = DateStr(hist[2].Date)
    /\ hist[1].cols # hist[2].cols
    /\ count > Cardinality(RowsOf(txPrices, argTicker))
    /\ \E r \in RowsOf(dbPrices, argTicker) :
          r.date = DateStr(hist[1].Date) /\ r.close # hist[2].cols["Close"]

\* C9: every ticker with a committed ticker_prices row has a committed
\* ticker_info row.
C9_PricesHaveInfo ==
    \A r \in Rows(dbPrices) : RowsOf(dbInfo, r.ticker) # {}

\* Both tickers have prices, and the run that just ended failed in the price step.
C9_Witness ==
    /\ FetchFailed
    /\ "history" \in {calls[i] : i \in 1..Len(calls)}
    /\ \A t \in Tickers : RowsOf(dbPrices, t) # {}

\* C10: a fetch run commits its info row and its price rows together or not
\* at all: a run that ends with an exception has changed no committed row and
\* leaves no transaction open, and committed rows change only in a run that
\* got through the price step without an exception.
C10_RunAtomic ==
    /\ FetchFailed => (~wrote /\ ~inTx /\ txInfo = dbInfo /\ txPrices = dbPrices)
    /\ wrote => /\ err = "none"
                /\ pc \in {"with_exit", "print", "return"}
                /\ calls = <<"info", "history">>

\* executemany failed after the run's info row was written in the transaction;
\* the committed tables, which hold another ticker, have no row of this run.
C10_Witness ==
    /\ FetchFailed
    /\ err = "ProgrammingError"
    /\ info # EmptyInfo
    /\ RowsOf(dbInfo, argTicker) = {}
    /\ RowsOf(dbPrices, argTicker) = {}
    /\ dbInfo # EmptyTable

====
